---- MODULE Spec2Model ----
(***************************************************************************)
(* A model of the Sober+Health dashboard (src/src/App.jsx): its pure        *)
(* helpers (fmtDate, daysBetween, buildCalendarCells, getBMICategory), the  *)
(* addiction and weight stores, and the backup export/import over           *)
(* localStorage.                                                            *)
(*                                                                          *)
(* Representation of JavaScript values:                                     *)
(*  - a time value (the number inside a Date) is counted in HOURS since the *)
(*    epoch instead of milliseconds, so that it fits TLC's integers; every  *)
(*    instant the model uses is a whole hour.  NaN (an Invalid Date) is     *)
(*    [nan |-> TRUE];                                                       *)
(*  - a date string "YYYY-MM-DD" is the tuple <<y, m, d>>, and the empty    *)
(*    string that a cleared <input type="date"> delivers is <<>>;           *)
(*  - the argument of fmtDate / daysBetween is either a string or a Date,   *)
(*    tagged StrV(s) or DateV(t);                                           *)
(*  - a value that goes through JSON is a record tagged by its type, and a  *)
(*    JSON text is the sequence of its tokens.                              *)
(*                                                                          *)
(* Specifications: Spec (the addiction and weight stores), SpecBackup       *)
(* (localStorage, export, import and the reload), SpecPlanner (the meal     *)
(* planner's grid), SpecBasket (the basket and the grocery list), SpecQuota *)
(* (writes that fail at the storage quota), SpecDays (daysBetween), SpecCal *)
(* (buildCalendarCells) and SpecBMI (the BMI form).  Each one leaves the    *)
(* variables of the others at their values after the first render.          *)
(***************************************************************************)
EXTENDS Integers, Sequences, FiniteSets, TLC

VARIABLES
  \* ---- the environment: the clock (new Date()), the local time zone, and
  \* ---- whether localStorage is at its quota (setItem then throws)
  now, tz, full,
  \* ---- daysBetween applied to two date strings (self-tests, App.jsx 611-612)
  from, to, days,
  \* ---- buildCalendarCells(resetAt, spanDays) and its result
  calResetAt, spanDays, cells, calState,
  \* ---- App: the BMI fields, the category derived on render, and the
  \* ---- self-test calls of getBMICategory (App.jsx 595-601, 614-618)
  heightFt, heightIn, weight, category, bmiArg, testCategory,
  \* ---- ProgressDashboard: the BMI ring's value and sublabel
  \* ---- (App.jsx 131-134)
  bmiPercent, bmiSub,
  \* ---- the session: the dashboard section the user's events go to, whether
  \* ---- a render has thrown (React then unmounts the app), and the last
  \* ---- store operation run
  section, crashed, last,
  \* ---- AddictionTracker: the tracker list and the two inputs of its form
  items, name, startDate,
  \* ---- WeightTracker: the weight log and the two inputs of its form
  rows, date, wt,
  \* ---- persistence: localStorage, the state of each mounted hook, whether
  \* ---- the planner tab is open, and the number of alert() calls of the
  \* ---- last event
  ls, mem, planner, alerts

envVars == <<now, tz, full>>
daysVars == <<from, to, days>>
calVars == <<calResetAt, spanDays, cells, calState>>
bmiVars == <<heightFt, heightIn, weight, category, bmiArg, testCategory, bmiPercent, bmiSub>>
sessionVars == <<section, crashed, last>>
addictionVars == <<items, name, startDate>>
weightVars == <<rows, date, wt>>
backupVars == <<ls, mem, planner, alerts>>
storeVars == <<sessionVars, addictionVars, weightVars, backupVars>>
vars == <<envVars, daysVars, calVars, bmiVars, storeVars>>

(***************************************************************************)
(* Time values and date strings                                             *)
(***************************************************************************)
HoursPerDay == 24

TV(t) == [nan |-> FALSE, t |-> t]
NaNTime == [nan |-> TRUE, t |-> 0]
StrV(s) == [kind |-> "string", s |-> s, t |-> NaNTime]
DateV(t) == [kind |-> "Date", s |-> <<>>, t |-> t]

\* ECMAScript MakeDay(year, month, date): the day number of a civil date.
MakeDay(y, m, d) ==
  LET yy == IF m <= 2 THEN y - 1 ELSE y
      era == yy \div 400
      yoe == yy - era * 400
      mp == IF m > 2 THEN m - 3 ELSE m + 9
      doy == (153 * mp + 2) \div 5 + d - 1
      doe == yoe * 365 + yoe \div 4 - yoe \div 100 + doy
  IN era * 146097 + doe - 719468

\* ECMAScript YearFromTime / MonthFromTime / DateFromTime of a day number.
CivilFromDay(z0) ==
  LET z == z0 + 719468
      era == z \div 146097
      doe == z - era * 146097
      yoe == (doe - doe \div 1460 + doe \div 36524 - doe \div 146096) \div 365
      doy == doe - (365 * yoe + yoe \div 4 - yoe \div 100)
      mp == (5 * doy + 2) \div 153
      d == doy - (153 * mp + 2) \div 5 + 1
      m == IF mp < 10 THEN mp + 3 ELSE mp - 9
      y == yoe + era * 400 + (IF m <= 2 THEN 1 ELSE 0)
  IN <<y, m, d>>

\* new Date(x): a Date is copied; a date-only string "YYYY-MM-DD" is parsed
\* as midnight UTC of that day; the empty string gives an Invalid Date.
NewDate(v) ==
  IF v.kind = "Date" THEN v.t
  ELSE IF v.s = <<>> THEN NaNTime
  ELSE TV(MakeDay(v.s[1], v.s[2], v.s[3]) * HoursPerDay)

\* Date.prototype.toISOString().slice(0,10): the UTC calendar day of the
\* time value.  toISOString throws a RangeError on an Invalid Date.
ToISODate(tv) == CivilFromDay(tv.t \div HoursPerDay)

\* fmtDate(d) = new Date(d).toISOString().slice(0,10)
fmtDateThrows(v) == NewDate(v).nan
fmtDate(v) == ToISODate(NewDate(v))

\* Math.round(n / d) for d > 0: the nearest integer, ties toward +infinity.
RoundDiv(n, d) == (2 * n + d) \div (2 * d)
Max(a, b) == IF a >= b THEN a ELSE b
Min(a, b) == IF a <= b THEN a ELSE b

\* daysBetween(from, to): [throws, n].
daysBetween_NoClamp(f, t) ==
  IF fmtDateThrows(f) \/ fmtDateThrows(t) THEN [throws |-> TRUE, n |-> 0]
  ELSE LET a == NewDate(StrV(fmtDate(f)))
           b == NewDate(StrV(fmtDate(t)))
       IN [throws |-> FALSE, n |-> RoundDiv(b.t - a.t, HoursPerDay)]
daysBetween(f, t) ==
  IF fmtDateThrows(f) \/ fmtDateThrows(t) THEN [throws |-> TRUE, n |-> 0]
  ELSE LET a == NewDate(StrV(fmtDate(f)))
           b == NewDate(StrV(fmtDate(t)))
       IN [throws |-> FALSE, n |-> Max(0, RoundDiv(b.t - a.t, HoursPerDay))]

(***************************************************************************)
(* The calendar, independently of the day-number arithmetic above: the      *)
(* Gregorian successor of a civil date, and the dates of a window.          *)
(***************************************************************************)
IsLeap(y) == (y % 4 = 0 /\ y % 100 # 0) \/ y % 400 = 0
DaysInMonth(y, m) ==
  IF m = 2 THEN (IF IsLeap(y) THEN 29 ELSE 28)
  ELSE IF m \in {4, 6, 9, 11} THEN 30 ELSE 31
NextDay(s) ==
  IF s[3] < DaysInMonth(s[1], s[2]) THEN <<s[1], s[2], s[3] + 1>>
  ELSE IF s[2] < 12 THEN <<s[1], s[2] + 1, 1>>
  ELSE <<s[1] + 1, 1, 1>>

\* The window of dates the properties draw from: WindowDays consecutive days
\* from FirstDate, across a year end and the 29th of February.
FirstDate == <<2023, 12, 29>>
WindowDays == 104
RECURSIVE DatesFrom(_, _)
DatesFrom(s, n) == IF n = 0 THEN <<>> ELSE <<s>> \o DatesFrom(NextDay(s), n - 1)
Window == DatesFrom(FirstDate, WindowDays)
DateStrings == {Window[i] : i \in 1..WindowDays}
IndexOf(s) == CHOOSE i \in 1..WindowDays : Window[i] = s

(***************************************************************************)
(* The environment: the clock and the local time zone.  A zone is the      *)
(* offset (hours east of UTC) before and after one transition instant; a   *)
(* zone without daylight saving has the same offset on both sides.          *)
(***************************************************************************)
Instant(s, h) == MakeDay(s[1], s[2], s[3]) * HoursPerDay + h

Zone(b, a, at) == [before |-> b, after |-> a, at |-> at]
UTCZone == Zone(0, 0, 0)
\* America/New_York: EST (UTC-5) until 2024-03-10 07:00 UTC, then EDT (UTC-4).
NewYork == Zone(-5, -4, Instant(<<2024, 3, 10>>, 7))
\* Australia/Sydney: AEDT (UTC+11) until 2024-04-06 16:00 UTC, then AEST (UTC+10).
Sydney == Zone(11, 10, Instant(<<2024, 4, 6>>, 16))
\* America/Bogota: UTC-5 all year.  Asia/Tokyo: UTC+9 all year.
Bogota == Zone(-5, -5, 0)
Tokyo == Zone(9, 9, 0)
Zones == {UTCZone, NewYork, Sydney, Bogota, Tokyo}

\* ECMAScript LocalTime(t) and UTC(t): a local time that occurs twice, or
\* not at all, is read with the offset before the transition.
LocalTime(z, t) == t + (IF t < z.at THEN z.before ELSE z.after)
UTCOf(z, tl) ==
  IF tl - z.before < z.at THEN tl - z.before
  ELSE IF tl - z.after >= z.at THEN tl - z.after
  ELSE tl - z.before

\* The instants the clock is drawn from: every hour of the NowDays.
NowDays == {<<2024, 3, 11>>, <<2024, 4, 8>>}
Instants == {Instant(s, h) : s \in NowDays, h \in 0..(HoursPerDay - 1)}

(***************************************************************************)
(* buildCalendarCells(resetAt, spanDays), App.jsx 30-38                     *)
(***************************************************************************)
\* d = new Date(); d.setDate(start.getDate() - k): the local calendar day
\* of the clock minus k days (MakeDay carries a day of the month below 1
\* into the previous months), at the clock's local time of day.
SetDateBack(z, t, k) ==
  LET tl == LocalTime(z, t)
      c == CivilFromDay(tl \div HoursPerDay)
      getDate == c[3]
      day == MakeDay(c[1], c[2], getDate - k)
  IN UTCOf(z, day * HoursPerDay + (tl % HoursPerDay))

\* One cell: { date: fmtDate(d), clean: d >= new Date(fmtDate(resetAt)) }.
CalendarCell(z, t, resetAt, k) ==
  LET d == SetDateBack(z, t, k)
  IN [date |-> fmtDate(DateV(TV(d))),
      clean |-> d >= NewDate(StrV(fmtDate(StrV(resetAt)))).t]

\* The cells, oldest first: cell i (from 0) lies spanDays - 1 - i days back.
\* fmtDate(resetAt) throws on a reset date that is no date, and with it the
\* whole call, as soon as there is a cell to build.
buildCalendarCellsThrows(resetAt, n) == n > 0 /\ fmtDateThrows(StrV(resetAt))
buildCalendarCells(z, t, resetAt, n) ==
  [i \in 1..n |-> CalendarCell(z, t, resetAt, n - i)]

(***************************************************************************)
(* BMI (App.jsx 285, 599-601).  A field of the BMI form holds a number or  *)
(* the empty string of a cleared <input type="number">; numbers are exact  *)
(* rationals: a weight is counted in tenths of a pound, a BMI is a         *)
(* fraction [num, den] with den > 0.                                        *)
(***************************************************************************)
Num(n) == [empty |-> FALSE, n |-> n]
EmptyField == [empty |-> TRUE, n |-> 0]
\* Number(x) || 0: the empty string is 0.
NumberOr0(x) == IF x.empty THEN 0 ELSE x.n

Frac(n, d) == [num |-> n, den |-> d]
\* a < b/c on fractions with positive denominators (c > 0)
FracLess(a, b, c) == a.num * c < b * a.den

\* inches = (Number(heightFt)||0) * 12 + (Number(heightIn)||0)
TotalInches(ft, inch) == NumberOr0(ft) * 12 + NumberOr0(inch)
\* bmi = inches > 0 ? (Number(weight) * 703) / (inches * inches) : 0,
\* with the weight w10 in tenths of a pound
ComputeBMI(ft, inch, w10) ==
  LET inches == TotalInches(ft, inch)
  IN IF inches > 0 THEN Frac(NumberOr0(w10) * 703, 10 * inches * inches)
     ELSE Frac(0, 1)

getBMICategory_ClosedBounds(bmi) ==
  IF bmi.num = 0 THEN ""
  ELSE IF ~FracLess(Frac(185, 10), bmi.num, bmi.den) THEN "Underweight"
  ELSE IF ~FracLess(Frac(25, 1), bmi.num, bmi.den) THEN "Normal"
  ELSE IF ~FracLess(Frac(30, 1), bmi.num, bmi.den) THEN "Overweight"
  ELSE "Obesity"
\* if (!bmi) return ""; if (bmi < 18.5) ...; if (bmi < 25) ...; if (bmi < 30) ...
getBMICategory(bmi) ==
  IF bmi.num = 0 THEN ""
  ELSE IF FracLess(bmi, 185, 10) THEN "Underweight"
  ELSE IF FracLess(bmi, 25, 1) THEN "Normal"
  ELSE IF FracLess(bmi, 30, 1) THEN "Overweight"
  ELSE "Obesity"

\* What a render of App derives from the three fields.
RenderCategory(ft, inch, w10) == getBMICategory(ComputeBMI(ft, inch, w10))

\* A percentage is carried as the fraction of the whole: 100 is 1/1.
\* clamp(x, 0, 100) = Math.max(0, Math.min(100, x)), on a fraction with a
\* positive denominator
clamp(x) ==
  IF x.num < 0 THEN Frac(0, 1) ELSE IF x.num > x.den THEN Frac(1, 1) ELSE x
\* ProgressDashboard: let bmiPercent = 100, bmiSub = "In range"; if (!bmi)
\* ...; else if (bmi < 18.5) ...; else if (bmi > 24.9) ... (the sublabels
\* without the BMI's digits)
ProgressDashboard_bmi(bmi) ==
  IF bmi.num = 0 THEN [percent |-> Frac(0, 1), sub |-> "Enter stats"]
  ELSE IF FracLess(bmi, 185, 10)
  THEN [percent |-> clamp(Frac(bmi.num * 10, bmi.den * 185)), sub |-> "to 18.5"]
  ELSE IF FracLess(Frac(249, 10), bmi.num, bmi.den)
  THEN [percent |-> clamp(Frac(249 * bmi.den, 10 * bmi.num)), sub |-> "to 24.9"]
  ELSE [percent |-> Frac(1, 1), sub |-> "In range"]
\* the ring App's render hands to ProgressDashboard
RenderProgress(ft, inch, w10) == ProgressDashboard_bmi(ComputeBMI(ft, inch, w10))

(***************************************************************************)
(* Text.  The value of a text input is a sequence of characters.            *)
(***************************************************************************)
RECURSIVE TrimStart(_)
TrimStart(s) == IF s # <<>> /\ Head(s) = " " THEN TrimStart(Tail(s)) ELSE s
RECURSIVE TrimEnd(_)
TrimEnd(s) ==
  IF s # <<>> /\ s[Len(s)] = " " THEN TrimEnd(SubSeq(s, 1, Len(s) - 1)) ELSE s
\* String.prototype.trim
Trim(s) == TrimEnd(TrimStart(s))

Digits == {"0", "1", "2", "3", "4", "5", "6", "7", "8", "9"}
DigitValue(c) == CHOOSE n \in 0..9 : <<"0", "1", "2", "3", "4", "5", "6", "7", "8", "9">>[n + 1] = c
\* the longest prefix of s made of digits, and its value
RECURSIVE DigitRun(_)
DigitRun(s) == IF s # <<>> /\ Head(s) \in Digits THEN <<Head(s)>> \o DigitRun(Tail(s)) ELSE <<>>
RECURSIVE DigitsValue(_)
DigitsValue(s) == IF s = <<>> THEN 0 ELSE DigitsValue(SubSeq(s, 1, Len(s) - 1)) * 10 + DigitValue(s[Len(s)])
Drop(s, n) == SubSeq(s, n + 1, Len(s))

\* parseFloat(s), in tenths: leading blanks and a sign are skipped, then the
\* longest prefix "digits [. digits]" is read (one of the two digit runs may
\* be empty) and the rest ignored; NaN when that prefix holds no digit.  The
\* texts of the model carry at most one digit after the point.
parseFloat(s0) ==
  LET s == TrimStart(s0)
      neg == s # <<>> /\ Head(s) = "-"
      u == IF s # <<>> /\ Head(s) \in {"-", "+"} THEN Tail(s) ELSE s
      ip == DigitRun(u)
      r == Drop(u, Len(ip))
      fp == IF r # <<>> /\ Head(r) = "." THEN DigitRun(Tail(r)) ELSE <<>>
      tenths == DigitsValue(ip) * 10 + (IF fp = <<>> THEN 0 ELSE DigitValue(fp[1]))
  IN IF ip = <<>> /\ fp = <<>> THEN [nan |-> TRUE, v |-> 0]
     ELSE [nan |-> FALSE, v |-> IF neg THEN -tenths ELSE tenths]

\* a.localeCompare(b) < 0 on date strings: "" sorts first, and two
\* zero-padded "YYYY-MM-DD" compare as their (year, month, day).
DateStrLess(a, b) ==
  IF a = <<>> THEN b # <<>>
  ELSE IF b = <<>> THEN FALSE
  ELSE \/ a[1] < b[1]
       \/ a[1] = b[1] /\ a[2] < b[2]
       \/ a[1] = b[1] /\ a[2] = b[2] /\ a[3] < b[3]

(***************************************************************************)
(* AddictionTracker (App.jsx 161-175)                                       *)
(***************************************************************************)
MaxItems == 2
\* the ids in play: two are enough for an id to be in the list, not in the
\* list, or carried by two trackers
Ids == {1, 2}
\* uid() is crypto.randomUUID(), or 'id-' + Math.random().toString(36)
\* where that throws: any id, one that a tracker of the list carries included
uid == Ids
IdsOf(its) == {its[k].id : k \in 1..Len(its)}

\* fmtDate(new Date())
Today(t) == fmtDate(DateV(TV(t)))

MapResetAt_Every(its, id, d) ==
  [k \in 1..Len(its) |-> [its[k] EXCEPT !.resetAt = d]]
\* items.map(it => it.id===id ? { ...it, resetAt: d } : it)
MapResetAt(its, id, d) ==
  [k \in 1..Len(its) |-> IF its[k].id = id THEN [its[k] EXCEPT !.resetAt = d] ELSE its[k]]
\* items.map(it => it.id===id ? { ...it, name: newName } : it)
MapName(its, id, n) ==
  [k \in 1..Len(its) |-> IF its[k].id = id THEN [its[k] EXCEPT !.name = n] ELSE its[k]]
\* items.filter(it => it.id!==id)
RECURSIVE FilterOutId(_, _)
FilterOutId(its, id) ==
  IF its = <<>> THEN <<>>
  ELSE (IF Head(its).id # id THEN <<Head(its)>> ELSE <<>>) \o FilterOutId(Tail(its), id)

\* The render of the tracker cards calls daysBetween(it.resetAt) and
\* buildCalendarCells(it.resetAt) for every tracker (App.jsx 195, 198).
RenderThrows(its, t) ==
  \E k \in 1..Len(its) : daysBetween(StrV(its[k].resetAt), DateV(TV(t))).throws

(***************************************************************************)
(* WeightTracker (App.jsx 215-229)                                          *)
(***************************************************************************)
\* next.sort((a,b) => a.date.localeCompare(b.date)): a stable sort
RECURSIVE InsertByDate(_, _)
InsertByDate(sorted, r) ==
  IF sorted = <<>> THEN <<r>>
  ELSE IF DateStrLess(r.date, Head(sorted).date) THEN <<r>> \o sorted
  ELSE <<Head(sorted)>> \o InsertByDate(Tail(sorted), r)
RECURSIVE SortByDate(_)
SortByDate(rs) ==
  IF rs = <<>> THEN <<>>
  ELSE InsertByDate(SortByDate(SubSeq(rs, 1, Len(rs) - 1)), rs[Len(rs)])

\* rows.find(r => r.date === date)
HasDate(rs, d) == \E k \in 1..Len(rs) : rs[k].date = d
\* rows.map(r => r.date===date ? {...r, weight: val} : r)
MapWeight(rs, d, val) ==
  [k \in 1..Len(rs) |-> IF rs[k].date = d THEN [rs[k] EXCEPT !.weight = val] ELSE rs[k]]
\* rows.filter(r => r.date!==d)
RECURSIVE FilterOutDate(_, _)
FilterOutDate(rs, d) ==
  IF rs = <<>> THEN <<>>
  ELSE (IF Head(rs).date # d THEN <<Head(rs)>> ELSE <<>>) \o FilterOutDate(Tail(rs), d)

\* if (!val || val<=0) return;
WeightRejected_ZeroOnly(val) == val.nan \/ val.v = 0
WeightRejected(val) == val.nan \/ val.v = 0 \/ val.v <= 0

\* the rows that add() sets for an accepted weight
NextRows_NoSort(rs, d, val) ==
  IF HasDate(rs, d) THEN MapWeight(rs, d, val)
  ELSE rs \o <<[date |-> d, weight |-> val]>>
NextRows(rs, d, val) ==
  SortByDate(IF HasDate(rs, d) THEN MapWeight(rs, d, val)
             ELSE rs \o <<[date |-> d, weight |-> val]>>)

(***************************************************************************)
(* JavaScript values and JSON text (App.jsx 8-19, 535-566)                  *)
(***************************************************************************)
\* A value is a record tagged by its typeof class; an object is the sequence
\* of its <<key, value>> members in insertion order.
Undefined == [t |-> "undefined"]
JNull == [t |-> "null"]
JBool(b) == [t |-> "boolean", b |-> b]
JNum(n) == [t |-> "number", n |-> n]
JStr(s) == [t |-> "string", s |-> s]
JArr(a) == [t |-> "array", a |-> a]
JObj(o) == [t |-> "object", o |-> o]

\* if (v) ...
Truthy_Defined(v) == v.t # "undefined"
Truthy(v) ==
  CASE v.t = "undefined" -> FALSE
    [] v.t = "null" -> FALSE
    [] v.t = "boolean" -> v.b
    [] v.t = "number" -> v.n # 0
    [] v.t = "string" -> v.s # ""
    [] OTHER -> TRUE

\* v.k throws a TypeError on null and undefined, and is undefined where v
\* has no member k
GetThrows(v) == v.t \in {"undefined", "null"}
HasKey(v, k) == v.t = "object" /\ \E i \in 1..Len(v.o) : v.o[i][1] = k
Get(v, k) ==
  IF HasKey(v, k) THEN v.o[CHOOSE i \in 1..Len(v.o) : v.o[i][1] = k][2] ELSE Undefined
\* { ...o, [k]: v }
Put(o, k, v) ==
  IF \E i \in 1..Len(o) : o[i][1] = k
  THEN [i \in 1..Len(o) |-> IF o[i][1] = k THEN <<k, v>> ELSE o[i]]
  ELSE Append(o, <<k, v>>)
\* { ...v }: the members of an object, none of null, undefined or a number
Spread(v) == IF v.t = "object" THEN v.o ELSE <<>>

\* A JSON text is the sequence of its tokens; white space is a token, and a
\* number token carries its spelling.
Tok(k, n, s) == [k |-> k, n |-> n, s |-> s]
P(s) == Tok("punct", 0, s)
Lit(s) == Tok("lit", 0, s)
NumTok(n) == Tok("num", n, "")
StrTok(s) == Tok("str", 0, s)
WS == Tok("ws", 0, " ")

\* JSON.stringify(v) and JSON.stringify(v, null, 2): a member whose value is
\* undefined is left out, an undefined element is written null, and
\* undefined itself gives no text (setItem then stores "undefined")
RECURSIVE Stringify(_, _)
RECURSIVE StringifyList(_, _, _)
StringifyList(parts, i, pretty) ==
  IF i > Len(parts) THEN IF pretty THEN <<WS>> ELSE <<>>
  ELSE (IF i > 1 THEN <<P(",")>> ELSE <<>>) \o (IF pretty THEN <<WS>> ELSE <<>>)
       \o parts[i] \o StringifyList(parts, i + 1, pretty)
Stringify(v, pretty) ==
  CASE v.t = "undefined" -> <<Lit("undefined")>>
    [] v.t = "null" -> <<Lit("null")>>
    [] v.t = "boolean" -> <<Lit(IF v.b THEN "true" ELSE "false")>>
    [] v.t = "number" -> <<NumTok(v.n)>>
    [] v.t = "string" -> <<StrTok(v.s)>>
    [] v.t = "array" ->
         IF v.a = <<>> THEN <<P("["), P("]")>>
         ELSE <<P("[")>>
              \o StringifyList([i \in 1..Len(v.a) |->
                                  IF v.a[i].t = "undefined" THEN <<Lit("null")>>
                                  ELSE Stringify(v.a[i], pretty)], 1, pretty)
              \o <<P("]")>>
    [] v.t = "object" ->
         LET Defined(m) == m[2].t # "undefined"
             ms == SelectSeq(v.o, Defined)
         IN IF ms = <<>> THEN <<P("{"), P("}")>>
            ELSE <<P("{")>>
                 \o StringifyList([i \in 1..Len(ms) |->
                                     <<StrTok(ms[i][1]), P(":")>>
                                     \o (IF pretty THEN <<WS>> ELSE <<>>)
                                     \o Stringify(ms[i][2], pretty)], 1, pretty)
                 \o <<P("}")>>

\* JSON.parse(text): the value, or a SyntaxError
ParseFail == [ok |-> FALSE, v |-> Undefined, next |-> 0]
ParseOk(v, next) == [ok |-> TRUE, v |-> v, next |-> next]
RECURSIVE SkipWS(_, _)
SkipWS(ts, i) == IF i <= Len(ts) /\ ts[i].k = "ws" THEN SkipWS(ts, i + 1) ELSE i
IsP(ts, i, s) == i <= Len(ts) /\ ts[i].k = "punct" /\ ts[i].s = s
RECURSIVE ParseValue(_, _)
RECURSIVE ParseElements(_, _, _)
RECURSIVE ParseMembers(_, _, _)
ParseElements(ts, i, acc) ==
  LET r == ParseValue(ts, i)
      j == SkipWS(ts, r.next)
  IN IF ~r.ok THEN ParseFail
     ELSE IF IsP(ts, j, ",") THEN ParseElements(ts, j + 1, Append(acc, r.v))
     ELSE IF IsP(ts, j, "]") THEN ParseOk(JArr(Append(acc, r.v)), j + 1)
     ELSE ParseFail
ParseMembers(ts, i, acc) ==
  LET k == SkipWS(ts, i)
      c == SkipWS(ts, k + 1)
      r == ParseValue(ts, c + 1)
      j == SkipWS(ts, r.next)
  IN IF ~(k <= Len(ts) /\ ts[k].k = "str" /\ IsP(ts, c, ":")) THEN ParseFail
     ELSE IF ~r.ok THEN ParseFail
     ELSE IF IsP(ts, j, ",") THEN ParseMembers(ts, j + 1, Put(acc, ts[k].s, r.v))
     ELSE IF IsP(ts, j, "}") THEN ParseOk(JObj(Put(acc, ts[k].s, r.v)), j + 1)
     ELSE ParseFail
ParseValue(ts, i0) ==
  LET i == SkipWS(ts, i0)
  IN IF i > Len(ts) THEN ParseFail
     ELSE CASE ts[i].k = "num" -> ParseOk(JNum(ts[i].n), i + 1)
            [] ts[i].k = "str" -> ParseOk(JStr(ts[i].s), i + 1)
            [] ts[i].k = "lit" /\ ts[i].s = "null" -> ParseOk(JNull, i + 1)
            [] ts[i].k = "lit" /\ ts[i].s = "true" -> ParseOk(JBool(TRUE), i + 1)
            [] ts[i].k = "lit" /\ ts[i].s = "false" -> ParseOk(JBool(FALSE), i + 1)
            [] IsP(ts, i, "[") ->
                 IF IsP(ts, SkipWS(ts, i + 1), "]")
                 THEN ParseOk(JArr(<<>>), SkipWS(ts, i + 1) + 1)
                 ELSE ParseElements(ts, i + 1, <<>>)
            [] IsP(ts, i, "{") ->
                 IF IsP(ts, SkipWS(ts, i + 1), "}")
                 THEN ParseOk(JObj(<<>>), SkipWS(ts, i + 1) + 1)
                 ELSE ParseMembers(ts, i + 1, <<>>)
            [] OTHER -> ParseFail
JSONParse(text) ==
  LET r == ParseValue(text, 1)
  IN IF r.ok /\ SkipWS(text, r.next) > Len(text)
     THEN [throws |-> FALSE, v |-> r.v]
     ELSE [throws |-> TRUE, v |-> Undefined]

(***************************************************************************)
(* localStorage and the useLocalStorage hook (App.jsx 8-19)                 *)
(***************************************************************************)
Keys ==
  {"ui:theme", "bmi:ft", "bmi:in", "bmi:w", "goal:weight", "weights:v1",
   "addictions:v1", "recipes:basket", "mealplan:v1"}
NoItem == [has |-> FALSE, text |-> <<>>]
Item(text) == [has |-> TRUE, text |-> text]
EmptyStorage == [k \in Keys |-> NoItem]
setItem(l, k, text) == [l EXCEPT ![k] = Item(text)]
\* getItem(k) || dflt
getItemOr(l, k, dflt) == IF l[k].has /\ l[k].text # <<>> THEN l[k].text ELSE dflt

\* createBlankPlan(DAYS, MEALS), followed on the first two of the seven days
\* and the first two of the three meals
DAYS == <<"Mon", "Tue">>
MEALS == <<"Breakfast", "Lunch">>
createBlankPlan(ds, ms) ==
  JObj([i \in 1..Len(ds) |-> <<ds[i], JObj([j \in 1..Len(ms) |-> <<ms[j], JNull>>])>>])

\* the initialValue of each store's hook
InitialValue(k) ==
  CASE k = "ui:theme" -> JStr("system")
    [] k = "bmi:ft" -> JNum(5)
    [] k = "bmi:in" -> JNum(10)
    [] k = "bmi:w" -> JNum(180)
    [] k = "goal:weight" -> JNum(0)
    [] k = "weights:v1" -> JArr(<<>>)
    [] k = "addictions:v1" -> JArr(<<>>)
    [] k = "recipes:basket" -> JObj(<<>>)
    [] k = "mealplan:v1" -> createBlankPlan(DAYS, MEALS)

\* useState(() => ...): item ? JSON.parse(item) : initialValue, and
\* initialValue where JSON.parse throws
HookState(l, k) ==
  IF l[k].has /\ l[k].text # <<>>
  THEN LET p == JSONParse(l[k].text) IN IF p.throws THEN InitialValue(k) ELSE p.v
  ELSE InitialValue(k)

\* the hooks of App and of the sections it always renders; the hook of
\* MealPlanner is mounted only while the planner tab is open
AppKeys == Keys \ {"mealplan:v1"}
\* a page load: every mounted hook reads its state, and its effect writes
\* JSON.stringify(state) back
\* a hook instance is named by its key; App holds instances of its own,
\* without setters, on the keys of the weight log and of the tracker list
\* (const [rows] = ..., const [addictions] = ...), which it hands to
\* ProgressDashboard
AppInstances == {"App.rows", "App.addictions"}
Hooks == Keys \cup AppInstances
HookKey(h) ==
  CASE h = "App.rows" -> "weights:v1"
    [] h = "App.addictions" -> "addictions:v1"
    [] OTHER -> h
MountStates(l) ==
  [h \in Hooks |-> IF HookKey(h) \in AppKeys THEN HookState(l, HookKey(h)) ELSE Undefined]
MountWrites(l, states) ==
  [k \in Keys |-> IF k \in AppKeys THEN Item(Stringify(states[k], FALSE)) ELSE l[k]]

\* MealPlanner's render reads plan[d][m] for every day and meal
PlannerThrows(plan) ==
  \/ GetThrows(plan)
  \/ \E i \in 1..Len(DAYS) : GetThrows(Get(plan, DAYS[i]))

(***************************************************************************)
(* The recipe catalog, the basket and the grocery list (App.jsx 323-367,   *)
(* 381-383, 410-414, 521)                                                   *)
(***************************************************************************)
\* RECIPES, followed on three of its twelve recipes (id and ingredients);
\* all three suit the category of the form's default values, so their cards
\* are on the Recipes tab
RECIPES ==
  << [id |-> "salmon-bowl",
      ingredients |-> <<"1 salmon fillet (6 oz)", "1 cup cooked brown rice",
                        "1 cup steamed broccoli", "2 tbsp reduced-sodium teriyaki",
                        "1 tsp sesame seeds">>],
     [id |-> "tofu-stirfry",
      ingredients |-> <<"14 oz tofu", "2 cups mixed veggies", "2 tsp soy sauce",
                        "1 tsp cornstarch + 2 tsp water", "1 tbsp olive oil",
                        "2 cloves garlic">>],
     [id |-> "veggie-omelette",
      ingredients |-> <<"3 eggs", "1 cup spinach", "1/2 cup mushrooms",
                        "1 tbsp olive oil", "Salt/pepper">>] >>
RecipeIds == {RECIPES[i].id : i \in 1..Len(RECIPES)}
\* RECIPES.find(r => r.id === id): the recipe, or undefined
FindThrows(id) == id \notin RecipeIds
Find(id) == RECIPES[CHOOSE i \in 1..Len(RECIPES) : RECIPES[i].id = id]

\* delete n[id]
Delete(o, k) == LET Keep(e) == e[1] # k IN SelectSeq(o, Keep)
\* setQty: prev => { const n={...prev}; if (qty<=0) delete n[id]; else
\* n[id]=qty; return n; }
setQtyValue_KeepZero(prev, id, qty) == JObj(Put(Spread(prev), id, JNum(qty)))
setQtyValue(prev, id, qty) ==
  JObj(IF qty <= 0 THEN Delete(Spread(prev), id) ELSE Put(Spread(prev), id, JNum(qty)))
\* selectedQty: basket[r.id]||0 (the quantities followed are numbers)
SelectedQty(basket, id) ==
  LET q == Get(basket, id) IN IF q.t = "number" THEN q.n ELSE 0

\* chosen: Object.entries(basket).filter(([id,qty])=>qty>0), each entry
\* with what RECIPES.find gives for its id spread into it
PositiveQty(e) == e[2].t = "number" /\ e[2].n > 0
ChosenEntries(basket) == SelectSeq(Spread(basket), PositiveQty)
\* x.ingredients.map of aggregated throws a TypeError where find gave
\* undefined (x is then { qty } alone), and Object.entries throws on null
FoodIdeasThrows(basket) ==
  \/ GetThrows(basket)
  \/ \E i \in 1..Len(ChosenEntries(basket)) : FindThrows(ChosenEntries(basket)[i][1])
\* chosen.flatMap(x => x.ingredients.map(ing => ({ ing, qty: x.qty })))
RECURSIVE FlatMapIngredients(_, _)
FlatMapIngredients(chosen, i) ==
  IF i > Len(chosen) THEN <<>>
  ELSE LET ings == Find(chosen[i][1]).ingredients
       IN [j \in 1..Len(ings) |-> [ing |-> ings[j], qty |-> chosen[i][2].n]]
          \o FlatMapIngredients(chosen, i + 1)
\* .reduce((acc, {ing, qty}) => { acc[ing]=(acc[ing]||0)+qty; return acc; }, {})
RECURSIVE ReduceQty_Overwrite(_, _, _)
ReduceQty_Overwrite(list, i, acc) ==
  IF i > Len(list) THEN acc
  ELSE ReduceQty_Overwrite(list, i + 1, Put(acc, list[i].ing, JNum(list[i].qty)))
RECURSIVE ReduceQty(_, _, _)
ReduceQty(list, i, acc) ==
  IF i > Len(list) THEN acc
  ELSE LET old == Get(JObj(acc), list[i].ing)
       IN ReduceQty(list, i + 1,
                    Put(acc, list[i].ing,
                        JNum((IF Truthy(old) THEN old.n ELSE 0) + list[i].qty)))
aggregated(basket) == JObj(ReduceQty(FlatMapIngredients(ChosenEntries(basket), 1), 1, <<>>))

\* the preview under a cell of the planner:
\* recipeMap[plan[d][m]]?.ingredients?.slice(0,2), shown where plan[d][m]
\* is truthy (the pieces that join(", ") puts together; nothing for a miss)
Preview(plan, d, m) ==
  LET id == Get(Get(plan, d), m)
  IN IF Truthy(id) /\ id.t = "string" /\ ~FindThrows(id.s)
     THEN SubSeq(Find(id.s).ingredients, 1, 2)
     ELSE <<>>

(***************************************************************************)
(* DataBackup (App.jsx 534-566)                                             *)
(***************************************************************************)
\* JSON.parse(localStorage.getItem(k) || dflt)
StoredOr(l, k, dflt) == JSONParse(getItemOr(l, k, Stringify(dflt, FALSE)))
ExportThrows(l) == \E k \in AppKeys \cup {"mealplan:v1"} : StoredOr(l, k, JNull).throws
ExportData(l) ==
  JObj(<< <<"addictions", StoredOr(l, "addictions:v1", JArr(<<>>)).v>>,
          <<"weights", StoredOr(l, "weights:v1", JArr(<<>>)).v>>,
          <<"bmi", JObj(<< <<"ft", StoredOr(l, "bmi:ft", JNum(0)).v>>,
                           <<"inch", StoredOr(l, "bmi:in", JNum(0)).v>>,
                           <<"w", StoredOr(l, "bmi:w", JNum(0)).v>> >>)>>,
          <<"recipesBasket", StoredOr(l, "recipes:basket", JObj(<<>>)).v>>,
          <<"mealplan", StoredOr(l, "mealplan:v1", JObj(<<>>)).v>>,
          <<"weightGoal", StoredOr(l, "goal:weight", JNull).v>> >>)
ExportText(l) == Stringify(ExportData(l), TRUE)

\* String(e.target?.result || "{}")
FileText_AsIs(t) == t
FileText(t) == IF t = <<>> THEN <<P("{"), P("}")>> ELSE t

\* the setItem calls of importAll on the parsed document, in order
WriteIf(c, k, v) == IF c THEN << <<k, Stringify(v, FALSE)>> >> ELSE <<>>
ImportWrites(data) ==
  LET addictions == Get(data, "addictions")
      weights == Get(data, "weights")
      bmi == Get(data, "bmi")
      recipesBasket == Get(data, "recipesBasket")
      mealplan == Get(data, "mealplan")
      weightGoal == Get(data, "weightGoal")
  IN WriteIf(Truthy(addictions), "addictions:v1", addictions)
     \o WriteIf(Truthy(weights), "weights:v1", weights)
     \o (IF Truthy(bmi)
         THEN WriteIf(Get(bmi, "ft").t # "undefined", "bmi:ft", Get(bmi, "ft"))
              \o WriteIf(Get(bmi, "inch").t # "undefined", "bmi:in", Get(bmi, "inch"))
              \o WriteIf(Get(bmi, "w").t # "undefined", "bmi:w", Get(bmi, "w"))
         ELSE <<>>)
     \o WriteIf(Truthy(recipesBasket), "recipes:basket", recipesBasket)
     \o WriteIf(Truthy(mealplan), "mealplan:v1", mealplan)
     \o WriteIf(weightGoal.t # "undefined", "goal:weight", weightGoal)
RECURSIVE ApplyWrites(_, _, _)
ApplyWrites(l, ws, n) ==
  IF n = 0 THEN l ELSE setItem(ApplyWrites(l, ws, n - 1), ws[n][1], ws[n][2])

(***************************************************************************)
(* The state of each part of the model when a specification does not       *)
(* exercise it.                                                             *)
(***************************************************************************)
NoDays == [throws |-> FALSE, n |-> -1]

EnvIdle == now = Instant(<<2024, 3, 11>>, 12) /\ tz = UTCZone /\ full = FALSE
DaysIdle == from = FirstDate /\ to = FirstDate /\ days = NoDays
CalIdle == calResetAt = <<>> /\ spanDays = 0 /\ cells = <<>> /\ calState = "idle"
\* useLocalStorage("bmi:ft", 5), ("bmi:in", 10), ("bmi:w", 180) on empty storage
BmiIdle ==
  /\ heightFt = Num(5) /\ heightIn = Num(10) /\ weight = Num(1800)
  /\ category = RenderCategory(Num(5), Num(10), Num(1800))
  /\ bmiPercent = RenderProgress(Num(5), Num(10), Num(1800)).percent
  /\ bmiSub = RenderProgress(Num(5), Num(10), Num(1800)).sub
  /\ bmiArg = Frac(0, 1) /\ testCategory = "none"
\* the first render on empty storage: useLocalStorage(key, []) gives the
\* empty lists, useState("") the empty texts, useState(fmtDate(new Date()))
\* today
NoOp == [op |-> "mount", done |-> TRUE]
AddictionIdle == items = <<>> /\ name = <<>> /\ startDate = Today(now)
WeightIdle == rows = <<>> /\ date = Today(now) /\ wt = <<>>
\* the first page load on empty storage
BackupIdle ==
  /\ mem = MountStates(EmptyStorage) /\ ls = MountWrites(EmptyStorage, mem)
  /\ planner = FALSE /\ alerts = 0
StoreIdle ==
  /\ section = "none" /\ crashed = FALSE /\ last = NoOp
  /\ AddictionIdle /\ WeightIdle /\ BackupIdle

(***************************************************************************)
(* The addiction and weight stores.  The two components share no state: a  *)
(* session is followed in one section at a time.                            *)
(***************************************************************************)
\* what the inputs of the two forms deliver: a text input any text, a date
\* input a date or "" (cleared), a number input a valid number or "" (empty,
\* or not a number)
D1 == <<2024, 2, 29>>
D2 == <<2024, 3, 1>>
D3 == <<2024, 3, 20>>
NameInputs == {<<>>, <<" ">>, <<" ", "a">>}
RenameInputs == {<<"b">>}
StartDateInputs == {<<>>, D1}
CustomDateInputs == {<<>>, D1}
DateInputs == {<<>>, D1, D2, D3}
WtInputs ==
  {<<>>, <<"0">>, <<"-", "5">>, <<"0", ".", "0">>, <<"7", "2", ".", "5">>, <<"1", "5", "0">>}

Init ==
  /\ section \in {"addiction", "weight"} /\ crashed = FALSE /\ last = NoOp
  /\ EnvIdle /\ AddictionIdle /\ WeightIdle /\ BackupIdle
  /\ DaysIdle /\ CalIdle /\ BmiIdle

\* the last store operation, and whether it went through (an add that
\* returns early did not)
Op(o, h) == [op |-> o, done |-> h]
NotSession == <<envVars, daysVars, calVars, bmiVars>>
\* setState(v) of a useLocalStorage hook, then its effect:
\* try { localStorage.setItem(key, JSON.stringify(state)) } catch {}; the
\* effect does not run when the render of the new state throws
Persist_WriteFirst(k, v) ==
  IF full THEN UNCHANGED <<ls, mem>>
  ELSE mem' = [mem EXCEPT ![k] = v] /\ ls' = setItem(ls, k, Stringify(v, FALSE))
Persist(k, v) ==
  /\ mem' = [mem EXCEPT ![k] = v]
  /\ ls' = IF full THEN ls ELSE setItem(ls, k, Stringify(v, FALSE))
PersistUnless(throws, k, v) == IF throws THEN UNCHANGED <<ls, mem>> ELSE Persist(k, v)
\* the tracker list and the weight log as JavaScript values (a string is
\* carried in the model's form of it)
ItemsValue(its) ==
  JArr([k \in 1..Len(its) |->
          JObj(<< <<"id", JStr(its[k].id)>>, <<"name", JStr(its[k].name)>>,
                  <<"resetAt", JStr(its[k].resetAt)>> >>)])
RowsValue(rs) ==
  JArr([k \in 1..Len(rs) |->
          JObj(<< <<"date", JStr(rs[k].date)>>, <<"weight", JNum(rs[k].weight)>> >>)])
\* an event of the AddictionTracker section, of the WeightTracker section
InAddiction == section = "addiction" /\ ~crashed
InWeight == section = "weight" /\ ~crashed
\* what an event of the one section leaves alone
AddictionFrame == UNCHANGED <<section, weightVars, NotSession, planner, alerts>>
WeightFrame == UNCHANGED <<section, crashed, addictionVars, NotSession, planner, alerts>>

\* ---- AddictionTracker
setName(v) ==
  InAddiction /\ name' = v /\ UNCHANGED <<items, startDate, crashed, last, ls, mem>> /\ AddictionFrame
setStartDate(v) ==
  InAddiction /\ startDate' = v /\ UNCHANGED <<items, name, crashed, last, ls, mem>> /\ AddictionFrame

\* add: if (!name.trim()) return; setItems([...items, {id: uid(), name:
\* name.trim(), resetAt: startDate}]); setName(""); setStartDate(today)
AddictionTracker_add ==
  /\ InAddiction
  /\ IF Trim(name) = <<>>
     THEN last' = Op("add", FALSE) /\ UNCHANGED <<items, name, startDate, crashed, ls, mem>>
     ELSE /\ Len(items) < MaxItems
          /\ \E i \in uid :
               items' = items \o <<[id |-> i, name |-> Trim(name), resetAt |-> startDate]>>
          /\ name' = <<>> /\ startDate' = Today(now)
          /\ crashed' = RenderThrows(items', now)
          /\ PersistUnless(crashed', "addictions:v1", ItemsValue(items'))
          /\ last' = Op("add", TRUE)
  /\ AddictionFrame

resetToday(id) ==
  /\ last' = Op("resetToday", TRUE)
  /\ InAddiction
  /\ items' = MapResetAt(items, id, Today(now))
  /\ crashed' = RenderThrows(items', now)
  /\ PersistUnless(crashed', "addictions:v1", ItemsValue(items'))
  /\ UNCHANGED <<name, startDate>>
  /\ AddictionFrame
setCustomDate(id, d) ==
  /\ last' = Op("setCustomDate", TRUE)
  /\ InAddiction
  /\ items' = MapResetAt(items, id, d)
  /\ crashed' = RenderThrows(items', now)
  /\ PersistUnless(crashed', "addictions:v1", ItemsValue(items'))
  /\ UNCHANGED <<name, startDate>>
  /\ AddictionFrame
AddictionTracker_remove(id) ==
  /\ last' = Op("remove", TRUE)
  /\ InAddiction
  /\ items' = FilterOutId(items, id)
  /\ crashed' = RenderThrows(items', now)
  /\ PersistUnless(crashed', "addictions:v1", ItemsValue(items'))
  /\ UNCHANGED <<name, startDate>>
  /\ AddictionFrame
rename(id, n) ==
  /\ last' = Op("rename", TRUE)
  /\ InAddiction
  /\ items' = MapName(items, id, n)
  /\ crashed' = RenderThrows(items', now)
  /\ PersistUnless(crashed', "addictions:v1", ItemsValue(items'))
  /\ UNCHANGED <<name, startDate>>
  /\ AddictionFrame


\* ---- WeightTracker
setDate(v) == InWeight /\ date' = v /\ UNCHANGED <<rows, wt, last, ls, mem>> /\ WeightFrame
setWt(v) == InWeight /\ wt' = v /\ UNCHANGED <<rows, date, last, ls, mem>> /\ WeightFrame

\* add: val = parseFloat(wt); if (!val || val<=0) return; ...; setRows(next);
\* setWt("")
WeightTracker_add ==
  /\ InWeight
  /\ LET val == parseFloat(wt)
     IN IF WeightRejected(val)
        THEN last' = Op("add", FALSE) /\ UNCHANGED <<rows, date, wt, ls, mem>>
        ELSE /\ rows' = NextRows(rows, date, val.v)
             /\ Persist("weights:v1", RowsValue(rows'))
             /\ wt' = <<>>
             /\ last' = Op(IF HasDate(rows, date) THEN "update" ELSE "add", TRUE)
             /\ UNCHANGED date
  /\ WeightFrame
WeightTracker_remove(d) ==
  /\ last' = Op("remove", TRUE)
  /\ InWeight
  /\ rows' = FilterOutDate(rows, d)
  /\ Persist("weights:v1", RowsValue(rows'))
  /\ UNCHANGED <<date, wt>>
  /\ WeightFrame

Next ==
  \/ \E v \in NameInputs : setName(v)
  \/ \E v \in StartDateInputs : setStartDate(v)
  \/ AddictionTracker_add
  \/ \E id \in Ids : resetToday(id)
  \/ \E id \in Ids, d \in CustomDateInputs : setCustomDate(id, d)
  \/ \E id \in Ids : AddictionTracker_remove(id)
  \/ \E id \in Ids, n \in RenameInputs : rename(id, n)
  \/ \E v \in DateInputs : setDate(v)
  \/ \E v \in WtInputs : setWt(v)
  \/ WeightTracker_add
  \/ \E d \in DateInputs : WeightTracker_remove(d)
Spec == Init /\ [][Next]_vars

\* ---- the claims about the two stores

\* the order of the calendar on date strings, "" before every date
CalendarLess(a, b) ==
  a # b /\ (a = <<>> \/ (b # <<>> /\ IndexOf(a) < IndexOf(b)))
SortedByDate(rs) ==
  \A i \in 1..Len(rs), j \in 1..Len(rs) : i < j => CalendarLess(rs[i].date, rs[j].date)
WeightOn(rs, d) == (CHOOSE k \in 1..Len(rs) : rs[k].date = d)
OtherRows(rs, d) == LET Keep(r) == r.date # d IN SelectSeq(rs, Keep)

\* C4: from the empty log, after any sequence of addOrUpdate and remove the
\* log holds at most one entry per date and is sorted strictly ascending by
\* date; addOrUpdate on a date already present replaces that entry's weight
\* and leaves the number of entries unchanged.
C4_WeightLog ==
  /\ [](SortedByDate(rows))
  /\ [][(WeightTracker_add /\ ~WeightRejected(parseFloat(wt)) /\ HasDate(rows, date)) =>
          /\ Len(rows') = Len(rows)
          /\ rows'[WeightOn(rows', date)].weight = parseFloat(wt).v
          /\ OtherRows(rows', date) = OtherRows(rows, date)]_vars

C4_Witness ==
  /\ last = Op("update", TRUE) /\ Len(rows) = 4
  /\ rows[1].date = <<>> /\ rows[4].date = D3
  /\ rows[2].weight = 725 /\ rows[3].weight = 1500

\* what the claim calls an invalid weight, read off the text: empty, without
\* a digit, negative, or with no digit other than 0
InvalidWeightText(t) ==
  \/ t = <<>>
  \/ \A i \in 1..Len(t) : t[i] \notin Digits
  \/ t[1] = "-"
  \/ \A i \in 1..Len(t) : t[i] \in Digits => t[i] = "0"
BlankName(n) == \A i \in 1..Len(n) : n[i] = " "

\* C5: an add with invalid input is ignored: a weight that is empty, not a
\* number, zero or negative leaves the weight log unchanged, and a tracker
\* name that is empty or only whitespace leaves the tracker list unchanged.
C5_InvalidAddIgnored ==
  [][/\ (WeightTracker_add /\ InvalidWeightText(wt)) => rows' = rows
     /\ (AddictionTracker_add /\ BlankName(name)) => items' = items]_vars

C5_Witness ==
  /\ section = "weight" /\ last = Op("add", FALSE)
  /\ wt = <<"-", "5">> /\ Len(rows) = 2

OtherItems(its, id) == LET Keep(it) == it.id # id IN SelectSeq(its, Keep)
IdSeq(its) == [k \in 1..Len(its) |-> its[k].id]

\* C6: resetToday, setResetDate, rename and remove with an id that is not in
\* the list leave the list unchanged and raise no error (the render that
\* follows does not throw); with an id that is in the list they
\* change (or delete) only the tracker with that id and leave every other
\* tracker unchanged.
C6_OnlyTheAddressedTracker ==
  [][\A id \in Ids :
       /\ (\/ resetToday(id)
           \/ \E d \in CustomDateInputs : setCustomDate(id, d)
           \/ \E n \in RenameInputs : rename(id, n)) =>
             /\ id \notin IdsOf(items) => (items' = items /\ ~crashed')
             /\ IdSeq(items') = IdSeq(items)
             /\ OtherItems(items', id) = OtherItems(items, id)
       /\ AddictionTracker_remove(id) =>
             /\ id \notin IdsOf(items) => (items' = items /\ ~crashed')
             /\ items' = OtherItems(items, id)]_vars

\* resetToday has run on a full list (every id is in it), and the two
\* first trackers differ in name and in reset date
C6_Witness ==
  /\ last = Op("resetToday", TRUE) /\ Len(items) = MaxItems
  /\ items[1].resetAt = D1 /\ items[2].resetAt = Today(now)
  /\ items[1].name # items[2].name /\ items[1].id # items[2].id

\* C7: in every reachable state of the addiction store, with any value the
\* date input can deliver, every tracker's resetAt is a date string of the
\* form YYYY-MM-DD.
C7_ResetAtIsADate ==
  \A k \in 1..Len(items) : Len(items[k].resetAt) = 3 /\ items[k].resetAt \in DateStrings

\* C20: after any sequence of mutations of the addiction store and of the
\* weight store within one session (no reload), the tracker list and the
\* weight log from which the progress dashboard derives the best streak and
\* the weight progress equal the lists the two stores hold.
C20_DashboardLists ==
  ~crashed =>
    /\ mem["App.addictions"] = ItemsValue(items)
    /\ mem["App.rows"] = RowsValue(rows)

\* What does hold: within a session the dashboard's lists stay what the page
\* load read, while the trackers' own hook instances follow the stores.
DashboardLists_AsLoaded ==
  /\ mem["App.addictions"] = JArr(<<>>) /\ mem["App.rows"] = JArr(<<>>)
  /\ ~crashed => (mem["addictions:v1"] = ItemsValue(items) /\ mem["weights:v1"] = RowsValue(rows))

(***************************************************************************)
(* Persistence, export and import                                          *)
(***************************************************************************)
\* values the stores take in a session
Tracker1 ==
  JObj(<< <<"id", JStr("t1")>>, <<"name", JStr("Nicotine")>>,
          <<"resetAt", JStr("2024-02-29")>> >>)
Row1 == JObj(<< <<"date", JStr("2024-03-01")>>, <<"weight", JNum(150)>> >>)
Basket1 == JObj(<< <<"salmon-bowl", JNum(2)>> >>)
\* setCell: pr => ({ ...pr, [d]: { ...pr[d], [m]: id||null } })
setCellValue_WholeDay(pr, d, m, id) ==
  JObj(Put(Spread(pr), d, JObj(<< <<m, IF id = "" THEN JNull ELSE JStr(id)>> >>)))
setCellValue(pr, d, m, id) ==
  JObj(Put(Spread(pr), d,
           JObj(Put(Spread(Get(pr, d)), m, IF id = "" THEN JNull ELSE JStr(id)))))
Plan1 == setCellValue(createBlankPlan(DAYS, MEALS), "Mon", "Breakfast", "salmon-bowl")

\* the setter calls followed: a tracker added, a field of the BMI form
\* typed (the input delivers a string), a goal entered
Updates ==
  {<<"addictions:v1", JArr(<<Tracker1>>)>>, <<"bmi:ft", JStr("6")>>}
CellInputs == {"salmon-bowl", ""}

\* the files given to importAll
DocFull ==
  Stringify(JObj(<< <<"addictions", JArr(<<Tracker1>>)>>,
                    <<"weights", JArr(<<Row1>>)>>,
                    <<"bmi", JObj(<< <<"ft", JNum(6)>>, <<"inch", JNum(1)>>,
                                     <<"w", JNum(200)>> >>)>>,
                    <<"recipesBasket", Basket1>>,
                    <<"mealplan", Plan1>>,
                    <<"weightGoal", JNum(170)>> >>), TRUE)
DocFalsy ==
  Stringify(JObj(<< <<"addictions", JNull>>, <<"weights", JNum(0)>>,
                    <<"bmi", JNull>>, <<"recipesBasket", JStr("")>>,
                    <<"mealplan", JBool(FALSE)>>, <<"weightGoal", JNull>> >>), FALSE)
DocEmptyValues ==
  Stringify(JObj(<< <<"addictions", JArr(<<>>)>>, <<"weights", JArr(<<>>)>>,
                    <<"bmi", JObj(<<>>)>>, <<"recipesBasket", JObj(<<>>)>>,
                    <<"mealplan", JObj(<<>>)>> >>), FALSE)
DocPartial ==
  Stringify(JObj(<< <<"bmi", JObj(<< <<"w", JNull>>, <<"ft", JNum(0)>> >>)>>,
                    <<"weights", JArr(<<Row1>>)>> >>), TRUE)
\* { "weightGoal": 170.0 }
DocGoal == <<P("{"), WS, StrTok("weightGoal"), P(":"), WS, Tok("num", 170, "170.0"), WS, P("}")>>
DocObject == <<P("{"), P("}")>>
DocNull == <<Lit("null")>>
DocTruncated == <<P("{"), StrTok("addictions"), P(":"), P("[")>>
DocEmptyFile == <<>>
Docs ==
  {DocFull, DocFalsy, DocEmptyValues, DocPartial, DocGoal, DocObject, DocNull,
   DocTruncated, DocEmptyFile}
\* a setItem call of importAll may throw (the value does not fit the quota):
\* the second one is followed, 0 for none; at the quota the first one throws
FailPoints == {0, 2}
FailsAt(ws) == IF full THEN {Min(1, Len(ws))} ELSE {f \in FailPoints : f <= Len(ws)}

BackupInit ==
  /\ section = "backup" /\ crashed = FALSE /\ last = NoOp
  /\ EnvIdle /\ DaysIdle /\ CalIdle /\ BmiIdle
  /\ BackupIdle /\ AddictionIdle /\ WeightIdle

InBackup == section = "backup" /\ ~crashed
BackupFrame == UNCHANGED <<section, addictionVars, weightVars, NotSession>>

\* a setter of a mounted hook: setState(v), then the effect's setItem
setState(k, v) ==
  /\ last' = Op("setState", TRUE)
  /\ InBackup
  /\ mem[k] # Undefined
  /\ Persist(k, v)
  /\ alerts' = 0
  /\ UNCHANGED <<planner, crashed>>
  /\ BackupFrame

\* setTab("planner"): MealPlanner mounts, its hook reads mealplan:v1 and,
\* once the render is through, its effect writes the plan
openPlanner ==
  /\ InBackup /\ ~planner
  /\ LET plan == HookState(ls, "mealplan:v1")
     IN IF PlannerThrows(plan)
        THEN /\ crashed' = TRUE /\ last' = Op("openPlanner", FALSE)
             /\ UNCHANGED <<ls, mem, planner>>
        ELSE /\ planner' = TRUE /\ last' = Op("openPlanner", TRUE)
             /\ Persist("mealplan:v1", plan)
             /\ UNCHANGED crashed
  /\ alerts' = 0
  /\ BackupFrame
\* setTab to another tab: MealPlanner unmounts
closePlanner ==
  /\ last' = Op("closePlanner", TRUE)
  /\ InBackup /\ planner
  /\ planner' = FALSE
  /\ mem' = [mem EXCEPT !["mealplan:v1"] = Undefined]
  /\ alerts' = 0
  /\ UNCHANGED <<ls, crashed>>
  /\ BackupFrame
\* the last setCell call and its arguments
SetCellOp(d, m, id) == [op |-> "setCell", done |-> TRUE, d |-> d, m |-> m, id |-> id]
setCell(d, m, id) ==
  /\ last' = SetCellOp(d, m, id)
  /\ InBackup /\ planner
  /\ LET plan == setCellValue(mem["mealplan:v1"], d, m, id)
     IN /\ Persist("mealplan:v1", plan)
        /\ crashed' = PlannerThrows(plan)
  /\ alerts' = 0
  /\ UNCHANGED planner
  /\ BackupFrame

\* clear: setPlan(createBlankPlan(DAYS, MEALS))
clear ==
  /\ last' = Op("clear", TRUE)
  /\ InBackup /\ planner
  /\ Persist("mealplan:v1", createBlankPlan(DAYS, MEALS))
  /\ alerts' = 0
  /\ UNCHANGED <<planner, crashed>>
  /\ BackupFrame

\* the file exportAll hands to the browser as a download
Exported(t) == [op |-> "export", done |-> TRUE, file |-> t]
exportAll ==
  /\ InBackup
  /\ last' = IF ExportThrows(ls) THEN Op("export", FALSE) ELSE Exported(ExportText(ls))
  /\ alerts' = 0
  /\ UNCHANGED <<ls, mem, planner, crashed>>
  /\ BackupFrame

\* the first render of a page load throws where FoodIdeas' does: React then
\* unmounts the application and no effect runs
MountThrows(l) == FoodIdeasThrows(HookState(l, "recipes:basket"))
Unmounted == [h \in Hooks |-> Undefined]

\* reader.onload of importAll on a file whose text is t
Imported(t, done) == [op |-> "import", done |-> done, file |-> t]
importAll(t) ==
  /\ InBackup
  /\ \E p \in {JSONParse(FileText(t))} :
        IF p.throws \/ GetThrows(p.v)
        THEN /\ alerts' = 1 /\ last' = Imported(t, FALSE)
             /\ UNCHANGED <<ls, mem, planner, crashed>>
        ELSE \E ws \in {ImportWrites(p.v)} :
                \E fail \in FailPoints \cup {1} :
                  /\ fail \in FailsAt(ws)
                  /\ IF fail = 0
                     THEN \E stored \in {ApplyWrites(ls, ws, Len(ws))} :
                             /\ crashed' = MountThrows(stored)
                             /\ mem' = IF crashed' THEN Unmounted ELSE MountStates(stored)
                             /\ ls' = IF crashed' \/ full THEN stored
                                      ELSE MountWrites(stored, mem')
                             /\ planner' = FALSE
                             /\ alerts' = 0 /\ last' = Imported(t, TRUE)
                     ELSE /\ ls' = ApplyWrites(ls, ws, fail - 1)
                          /\ alerts' = 1 /\ last' = Imported(t, FALSE)
                          /\ UNCHANGED <<mem, planner, crashed>>
  /\ BackupFrame

\* the file picked is the backup the last event exported
importBackup == last.op = "export" /\ last.done /\ importAll(last.file)

BackupNext ==
  \/ \E u \in Updates : setState(u[1], u[2])
  \/ openPlanner
  \/ closePlanner
  \/ \E id \in CellInputs : setCell("Mon", "Breakfast", id)
  \/ clear
  \/ exportAll
  \/ \E t \in Docs : importAll(t)
  \/ importBackup
SpecBackup == BackupInit /\ [][BackupNext]_vars

\* ---- the claims about export and import

\* the value of a store: the state of its hook where the hook is mounted,
\* and what the hook will read where it is not
StoreValues(l, m) == [k \in Keys |-> IF m[k] # Undefined THEN m[k] ELSE HookState(l, k)]

\* C1: from any reachable state of the stores (a store whose key was never
\* persisted included), exporting and then importing the exported document,
\* followed by the reload, leaves every store (addictions, weights, BMI
\* height and weight, basket, meal plan, weight goal, theme) with exactly the
\* value it had before.
C1_RoundTrip ==
  [][(last.op = "export" /\ last.done /\ last' = Imported(last.file, TRUE)) =>
        StoreValues(ls', mem') = StoreValues(ls, mem)]_vars

\* What holds of the round trip: it keeps every store's value once the meal
\* plan has been persisted and no import has stopped half way.
InSync == \A k \in Keys : mem[k] # Undefined => Item(Stringify(mem[k], FALSE)) = ls[k]
RoundTrip_PlanPersisted ==
  [][(/\ last.op = "export" /\ last.done /\ last' = Imported(last.file, TRUE)
      /\ ls["mealplan:v1"].has /\ InSync) =>
        StoreValues(ls', mem') = StoreValues(ls, mem)]_vars

\* the keys of a backup document and the storage key each one goes to
Entry(n, s, k) == [name |-> n, sub |-> s, key |-> k]
Entries ==
  {Entry("addictions", "", "addictions:v1"), Entry("weights", "", "weights:v1"),
   Entry("bmi", "ft", "bmi:ft"), Entry("bmi", "inch", "bmi:in"), Entry("bmi", "w", "bmi:w"),
   Entry("recipesBasket", "", "recipes:basket"), Entry("mealplan", "", "mealplan:v1"),
   Entry("weightGoal", "", "goal:weight")}
DocValue(doc, e) == IF e.sub = "" THEN Get(doc, e.name) ELSE Get(Get(doc, e.name), e.sub)
Present(doc, e) == DocValue(doc, e) # Undefined
PersistedIs(l, k, v) == l[k].has /\ JSONParse(l[k].text) = [throws |-> FALSE, v |-> v]
\* null, false, 0 and "", and the value of an absent key
Falsy(v) == v \in {Undefined, JNull, JBool(FALSE), JNum(0), JStr("")}
Applied(doc, e) ==
  IF e.sub # "" THEN ~Falsy(Get(doc, e.name)) /\ Present(doc, e)
  ELSE IF e.name = "weightGoal" THEN Present(doc, e)
  ELSE ~Falsy(DocValue(doc, e))
\* a step of importAll (no other action sets last to an import), on the
\* file last'.file; p below is the outcome of JSON.parse on it
IsImport == last'.op = "import"

C3_Unparsable ==
  [][IsImport =>
        \A p \in {JSONParse(last'.file)} :
          p.throws => ls' = ls /\ alerts' = 1 /\ ~last'.done]_vars

\* C3, amended: on non-empty input that is not parsable JSON no persisted
\* value changes, exactly one message is shown and no reload is triggered
\* (the state in memory and the open tab stay); an empty file is imported as
\* the empty document {}: no persisted value changes, no message is shown,
\* and the page reloads.
C3_UnparsableNonEmpty ==
  [][IsImport =>
        \A p \in {JSONParse(last'.file)} :
          p.throws =>
            /\ ls' = ls
            /\ IF last'.file = <<>> THEN alerts' = 0 /\ last'.done
               ELSE alerts' = 1 /\ ~last'.done /\ mem' = mem /\ planner' = planner]_vars

C3_Witness ==
  /\ last = Imported(DocTruncated, FALSE) /\ alerts = 1 /\ planner
  /\ ls["addictions:v1"] = Item(Stringify(JArr(<<Tracker1>>), FALSE))

\* ---- the claims about the meal plan

\* plan[d][m] as the planner reads it
Cell(plan, d, m) == Get(Get(plan, d), m)
Grid == {<<DAYS[i], MEALS[j]>> : i \in 1..Len(DAYS), j \in 1..Len(MEALS)}
\* every (day, meal) pair is present and holds a recipe id or null
Dense(plan) == \A c \in Grid : Cell(plan, c[1], c[2]).t \in {"null", "string"}
\* the plan the planner shows, or will show when its tab is opened
PlanRead(l, m) == StoreValues(l, m)["mealplan:v1"]

\* C11: the meal plan is fully dense: createBlankPlan(DAYS, MEALS) holds
\* every (day, meal) pair with an explicit null, and the initial load,
\* setCell, clear, and an export followed by the import of the exported file
\* and the reload (the export writes {} for a plan that was never persisted)
\* all leave the plan read by the planner with every day and meal, each
\* holding a recipe id or null.
C11_PlanDense ==
  [][/\ Dense(createBlankPlan(DAYS, MEALS))
     /\ ((/\ last'.op = "import" =>
               (last.op = "export" /\ last.done /\ last' = Imported(last.file, TRUE))
           /\ Dense(PlanRead(ls, mem))) =>
            Dense(PlanRead(ls', mem')))]_vars

\* What does hold of the plan: the steps of the planner itself keep it dense.
PlanDense_PlannerSteps ==
  [][(last'.op \in {"setCell", "clear", "openPlanner", "closePlanner"}
      /\ Dense(PlanRead(ls, mem))) => Dense(PlanRead(ls', mem'))]_vars

(***************************************************************************)
(* The meal planner alone: the tab opened and closed, every cell set, the  *)
(* grid cleared.                                                            *)
(***************************************************************************)
\* what the <select> of a cell delivers: the id of a recipe, or "" for the
\* dash
SelectInputs == {"salmon-bowl", "tofu-stirfry", ""}
PlannerNext ==
  \/ openPlanner
  \/ closePlanner
  \/ \E c \in Grid : \E id \in SelectInputs : setCell(c[1], c[2], id)
  \/ clear
SpecPlanner == BackupInit /\ [][PlannerNext]_vars

\* C12: setCell(day, meal, value) changes exactly the addressed cell to the
\* recipe id given (or to empty) and leaves every other cell of the grid
\* unchanged; clear() sets every cell of the grid to empty.
C12_SetCellClear ==
  [][/\ last'.op = "setCell" =>
          \A c \in Grid :
            Cell(mem'["mealplan:v1"], c[1], c[2]) =
              IF c = <<last'.d, last'.m>>
              THEN (IF last'.id = "" THEN JNull ELSE JStr(last'.id))
              ELSE Cell(mem["mealplan:v1"], c[1], c[2])
     /\ last'.op = "clear" =>
          \A c \in Grid : Cell(mem'["mealplan:v1"], c[1], c[2]) = JNull]_vars

\* a cell was set while another cell of the same day and one of another day
\* held a recipe
C12_Witness ==
  /\ last = SetCellOp("Mon", "Lunch", "tofu-stirfry")
  /\ Cell(mem["mealplan:v1"], "Mon", "Breakfast") = JStr("salmon-bowl")
  /\ Cell(mem["mealplan:v1"], "Tue", "Lunch") = JStr("salmon-bowl")

(***************************************************************************)
(* The basket and the grocery list: the + and - buttons of the recipe      *)
(* cards, Clear, and the import of a backup that names a recipe the        *)
(* catalog does not have.                                                   *)
(***************************************************************************)
\* the + button is followed up to this quantity
MaxQty == 2
SetQtyOp(id, qty) == [op |-> "setQty", done |-> TRUE, id |-> id, qty |-> qty]
\* the cards are on the Recipes tab
OnRecipesTab == InBackup /\ ~planner
\* onSelect(r.id, (selectedQty||0)+1)
RecipeCard_plus(id) ==
  /\ OnRecipesTab
  /\ LET qty == SelectedQty(mem["recipes:basket"], id) + 1
     IN /\ qty <= MaxQty
        /\ last' = SetQtyOp(id, qty)
        /\ Persist("recipes:basket", setQtyValue(mem["recipes:basket"], id, qty))
  /\ alerts' = 0
  /\ UNCHANGED <<planner, crashed>>
  /\ BackupFrame
\* onSelect(r.id, Math.max(0, (selectedQty||0)-1))
RecipeCard_minus(id) ==
  /\ OnRecipesTab
  /\ LET qty == Max(0, SelectedQty(mem["recipes:basket"], id) - 1)
     IN /\ last' = SetQtyOp(id, qty)
        /\ Persist("recipes:basket", setQtyValue(mem["recipes:basket"], id, qty))
  /\ alerts' = 0
  /\ UNCHANGED <<planner, crashed>>
  /\ BackupFrame
\* Clear of the Grocery List tab: setBasket({})
clearBasket ==
  /\ OnRecipesTab
  /\ last' = Op("clearBasket", TRUE)
  /\ Persist("recipes:basket", JObj(<<>>))
  /\ alerts' = 0
  /\ UNCHANGED <<planner, crashed>>
  /\ BackupFrame

\* backups that name a recipe the catalog does not have: in a cell of the
\* plan, in the basket
GhostId == "zucchini-boats"
DocGhostPlan ==
  Stringify(JObj(<< <<"mealplan",
                      setCellValue(createBlankPlan(DAYS, MEALS), "Mon", "Breakfast",
                                   GhostId)>> >>), TRUE)
DocGhostBasket ==
  Stringify(JObj(<< <<"recipesBasket", JObj(<< <<GhostId, JNum(1)>> >>)>> >>), TRUE)
GhostDocs == {DocGhostPlan, DocGhostBasket}

BasketNext ==
  \/ \E id \in RecipeIds : RecipeCard_plus(id)
  \/ \E id \in RecipeIds : RecipeCard_minus(id)
  \/ clearBasket
  \/ openPlanner
  \/ closePlanner
  \/ \E t \in GhostDocs : importAll(t)
SpecBasket == BackupInit /\ [][BasketNext]_vars

\* the basket as the session holds it, or as the next load will read it
Basket == StoreValues(ls, mem)["recipes:basket"]
BasketIds == {Basket.o[i][1] : i \in 1..Len(Basket.o)}

\* C13: from the empty basket, after any sequence of the + and - buttons
\* (the decrement clamped at 0) and Clear, every entry stored in the basket
\* has a positive integer quantity: a recipe whose quantity reaches 0 has its
\* key removed and is never stored with quantity 0.
C13_PositiveQuantities ==
  /\ Basket.t = "object"
  /\ \A i \in 1..Len(Basket.o) : Basket.o[i][2].t = "number" /\ Basket.o[i][2].n \in Nat \ {0}
  /\ \A i, j \in 1..Len(Basket.o) : Basket.o[i][1] = Basket.o[j][1] => i = j
  /\ ls["recipes:basket"] = Item(Stringify(Basket, FALSE))
  /\ (last.op = "setQty" /\ last.qty = 0) => last.id \notin BasketIds

\* the - button took a recipe from quantity 1 to 0 while another recipe
\* stayed in the basket
C13_Witness ==
  /\ last = SetQtyOp("salmon-bowl", 0)
  /\ Basket = JObj(<< <<"tofu-stirfry", JNum(MaxQty)>> >>)

\* the number of times s occurs in a list of ingredients
Occurrences(s, ings) == Cardinality({j \in 1..Len(ings) : ings[j] = s})
RECURSIVE TotalOf(_, _, _)
TotalOf(basket, s, i) ==
  IF i > Len(RECIPES) THEN 0
  ELSE SelectedQty(basket, RECIPES[i].id) * Occurrences(s, RECIPES[i].ingredients)
       + TotalOf(basket, s, i + 1)
AllIngredients ==
  UNION {{RECIPES[i].ingredients[j] : j \in 1..Len(RECIPES[i].ingredients)} :
           i \in 1..Len(RECIPES)}
SalmonOnly == JObj(<< <<"salmon-bowl", JNum(1)>> >>)

\* C14: for every basket over catalog recipes, the aggregated grocery list
\* maps each ingredient string to the sum, over the recipes in the basket,
\* of the recipe's quantity times the number of times the string occurs in
\* its ingredients, and has no other key; a basket holding only the Teriyaki
\* Salmon Rice Bowl at quantity 1 gives exactly its 5 ingredients, each 1.
C14_Aggregated ==
  /\ (~crashed /\ BasketIds \subseteq RecipeIds) =>
        LET agg == aggregated(Basket)
        IN /\ \A s \in AllIngredients :
                IF TotalOf(Basket, s, 1) = 0 THEN ~HasKey(agg, s)
                ELSE Get(agg, s) = JNum(TotalOf(Basket, s, 1))
           /\ \A i \in 1..Len(agg.o) : agg.o[i][1] \in AllIngredients
           /\ \A i, j \in 1..Len(agg.o) : agg.o[i][1] = agg.o[j][1] => i = j
  /\ aggregated(SalmonOnly).o = [j \in 1..5 |-> <<Find("salmon-bowl").ingredients[j], JNum(1)>>]

\* two recipes that share an ingredient are in the basket, at different
\* quantities
C14_Witness ==
  /\ ~crashed
  /\ Get(Basket, "tofu-stirfry") = JNum(2) /\ Get(Basket, "veggie-omelette") = JNum(1)
  /\ Get(aggregated(Basket), "1 tbsp olive oil") = JNum(3)

\* C19: resolving a recipe id that the catalog does not have never raises an
\* error: a cell of the plan that holds an unknown id has an empty preview,
\* and an entry of the basket with an unknown id (which import, validating
\* nothing, lets in) adds nothing to the aggregated grocery list and does
\* not put the view in an error state.
C19_UnknownIdTolerated ==
  /\ (planner /\ Cell(mem["mealplan:v1"], "Mon", "Breakfast") = JStr(GhostId)) =>
        Preview(mem["mealplan:v1"], "Mon", "Breakfast") = <<>>
  /\ GhostId \in BasketIds =>
        /\ ~crashed
        /\ aggregated(Basket) = aggregated(JObj(Delete(Basket.o, GhostId)))

\* What does hold: the planner tolerates the unknown id.
UnknownId_PlannerTolerates ==
  (Cell(PlanRead(ls, mem), "Mon", "Breakfast") = JStr(GhostId) /\ GhostId \notin BasketIds) =>
    /\ ~crashed
    /\ planner => Preview(mem["mealplan:v1"], "Mon", "Breakfast") = <<>>
UnknownId_PlannerWitness ==
  planner /\ Cell(mem["mealplan:v1"], "Mon", "Breakfast") = JStr(GhostId)

(***************************************************************************)
(* Writes that fail: localStorage reaches its quota (other pages of the    *)
(* origin fill it) and is freed again, while the basket is changed and a   *)
(* backup is exported.                                                      *)
(***************************************************************************)
QuotaFrame == UNCHANGED <<now, tz, daysVars, calVars, bmiVars, storeVars>>
storageFills == ~full /\ full' = TRUE /\ QuotaFrame
storageFrees == full /\ full' = FALSE /\ QuotaFrame
\* the cards whose buttons are followed here
QuotaIds == {"salmon-bowl", "tofu-stirfry"}
QuotaNext ==
  \/ storageFills
  \/ storageFrees
  \/ \E id \in QuotaIds : RecipeCard_plus(id)
  \/ \E id \in QuotaIds : RecipeCard_minus(id)
  \/ clearBasket
  \/ exportAll
SpecQuota == BackupInit /\ [][QuotaNext]_vars

\* C15: a failing persistence write is swallowed: when the storage write
\* after a store mutation fails, no error reaches the caller (no render
\* throws, nothing is alerted), the store's in-memory value is the newly set
\* value, and later operations of the session act on that in-memory value
\* (the quantity a button sets is one more, or one less down to 0, than the
\* quantity in memory, whatever the storage holds).
C15_WriteFailureSwallowed ==
  [][(full /\ last' # last /\ last'.op \in {"setQty", "clearBasket"}) =>
        /\ ~crashed' /\ alerts' = 0
        /\ ls' = ls
        /\ last'.op = "clearBasket" => mem'["recipes:basket"] = JObj(<<>>)
        /\ last'.op = "setQty" =>
             /\ SelectedQty(mem'["recipes:basket"], last'.id) = last'.qty
             /\ last'.qty \in {SelectedQty(mem["recipes:basket"], last'.id) + 1,
                               Max(0, SelectedQty(mem["recipes:basket"], last'.id) - 1)}
             /\ \A id \in RecipeIds \ {last'.id} :
                  Get(mem'["recipes:basket"], id) = Get(mem["recipes:basket"], id)]_vars

\* two presses of + whose writes both failed: the second one counted on from
\* the quantity in memory, and the storage still holds the empty basket
C15_Witness ==
  /\ full /\ last = SetQtyOp("salmon-bowl", 2)
  /\ mem["recipes:basket"] = JObj(<< <<"salmon-bowl", JNum(2)>> >>)
  /\ ls["recipes:basket"] = Item(Stringify(JObj(<<>>), FALSE))

\* C16: in every reachable state, the document exportAll produces holds the
\* current in-session value of every store (tracker list, weight log, BMI
\* feet, inches and pounds, basket, meal plan, weight goal), also after a
\* persistence write failed and for a key that was never written.
C16_ExportHoldsSession ==
  (last.op = "export" /\ last.done) =>
    \A e \in Entries : DocValue(JSONParse(last.file).v, e) = StoreValues(ls, mem)[e.key]

\* What does hold: the exported document is what the storage holds, with
\* exportAll's own defaults for the keys that are missing.
Export_HoldsPersisted ==
  (last.op = "export" /\ last.done) =>
    \A e \in Entries :
      ls[e.key].has => PersistedIs(ls, e.key, DocValue(JSONParse(last.file).v, e))

\* C18: an import never ends in a partial-success state: when importAll has
\* finished, also when a storage write failed partway through applying the
\* document, either every key of the document that importAll applies has
\* been applied or no store's persisted value has changed.
C18_NoPartialImport ==
  [][IsImport =>
        \A p \in {JSONParse(FileText(last'.file))} :
          (~p.throws /\ ~GetThrows(p.v)) =>
            \/ \A e \in Entries :
                 Applied(p.v, e) => PersistedIs(ls', e.key, DocValue(p.v, e))
            \/ ls' = ls]_vars

(***************************************************************************)
(* daysBetween on two date strings                                          *)
(***************************************************************************)
DaysInit ==
  /\ from \in DateStrings /\ to \in DateStrings /\ days = NoDays
  /\ EnvIdle /\ CalIdle /\ BmiIdle /\ StoreIdle

CallDaysBetween ==
  /\ days = NoDays
  /\ days' = daysBetween(StrV(from), StrV(to))
  /\ UNCHANGED <<from, to, envVars, calVars, bmiVars, storeVars>>

DaysNext == CallDaysBetween
SpecDays == DaysInit /\ [][DaysNext]_vars

\* C8: for calendar dates d1, d2, daysBetween(d1, d2) is the number of
\* calendar days from d1 to d2 when d2 is on or after d1 (0 for the same
\* day, 1 for the next day), 0 when d2 is before d1, and never negative.
C8_DaysBetween ==
  days # NoDays =>
    /\ ~days.throws
    /\ days.n >= 0
    /\ days.n = Max(0, IndexOf(to) - IndexOf(from))
    /\ (to = from => days.n = 0)
    /\ (to = NextDay(from) => days.n = 1)

C8_Witness ==
  /\ days # NoDays
  /\ from = <<2024, 2, 28>> /\ to = <<2024, 3, 1>> /\ days.n = 2

(***************************************************************************)
(* buildCalendarCells called with a reset date and a span                   *)
(***************************************************************************)
MaxSpan == 4
ResetDates ==
  {<<>>} \cup {s \in DateStrings :
                 \E n \in NowDays : IndexOf(n) - IndexOf(s) \in -2..(MaxSpan + 1)}

CalInit ==
  /\ now \in Instants /\ tz \in Zones /\ full = FALSE
  /\ calResetAt \in ResetDates /\ spanDays \in 0..MaxSpan
  /\ cells = <<>> /\ calState = "idle"
  /\ DaysIdle /\ BmiIdle /\ StoreIdle

CallBuildCalendarCells ==
  /\ calState = "idle"
  /\ IF buildCalendarCellsThrows(calResetAt, spanDays)
     THEN calState' = "threw" /\ cells' = cells
     ELSE /\ calState' = "built"
          /\ cells' = buildCalendarCells(tz, now, calResetAt, spanDays)
  /\ UNCHANGED <<calResetAt, spanDays, envVars, daysVars, bmiVars, storeVars>>

CalNext == CallBuildCalendarCells
SpecCal == CalInit /\ [][CalNext]_vars

\* The user's local calendar day at the instant t, and the day k days
\* before a date of the window.
LocalToday(z, t) == CivilFromDay(LocalTime(z, t) \div HoursPerDay)
UTCToday(t) == CivilFromDay(t \div HoursPerDay)
DateLeq(a, b) == IndexOf(a) <= IndexOf(b)
DaysBefore(s, k) == Window[IndexOf(s) - k]

Cal_Length == calState = "built" => Len(cells) = spanDays
Cal_Clean ==
  calState = "built" =>
    \A i \in 1..Len(cells) : cells[i].clean <=> DateLeq(calResetAt, cells[i].date)
Cal_Monotone ==
  calState = "built" =>
    \A i \in 1..(Len(cells) - 1) : cells[i].clean => cells[i + 1].clean
Cal_ConsecutiveTo(today) ==
  \A i \in 1..Len(cells) : cells[i].date = DaysBefore(today, spanDays - i)

\* C10: buildCalendarCells(resetDate, n) returns exactly n cells, whose
\* dates are the n consecutive calendar days ending today, oldest first; a
\* cell is clean iff its date is on or after resetDate, so the flag never
\* turns from true to false.  "Today" is read either way: as the user's
\* local day or as the UTC day that fmtDate(new Date()) gives.
C10_CalendarCells ==
  (calResetAt # <<>> /\ calState # "idle") =>
    /\ calState = "built"
    /\ Len(cells) = spanDays
    /\ \/ Cal_ConsecutiveTo(LocalToday(tz, now))
       \/ Cal_ConsecutiveTo(UTCToday(now))
    /\ \A i \in 1..Len(cells) : cells[i].clean <=> DateLeq(calResetAt, cells[i].date)
    /\ \A i \in 1..(Len(cells) - 1) : cells[i].clean => cells[i + 1].clean

\* What holds of the dates: in a zone without a daylight-saving transition
\* they are the consecutive days ending on the UTC day of the clock.
\* C17: fmtDate maps any instant to the YYYY-MM-DD of its calendar day in
\* local time: for every instant and every local time zone the result is the
\* local year, month and day of the instant, so that the 'today' of the
\* default entry dates (useState(fmtDate(new Date())) of the two forms) and
\* of the calendar's last cell is the user's local date.
C17_FmtDateLocalDay ==
  /\ startDate = LocalToday(tz, now)
  /\ date = LocalToday(tz, now)
  /\ (calState = "built" /\ spanDays > 0) => cells[spanDays].date = LocalToday(tz, now)

\* What does hold: fmtDate of an instant is its calendar day in UTC.
FmtDate_UTCDay ==
  /\ startDate = UTCToday(now)
  /\ date = UTCToday(now)
  /\ (calState = "built" /\ spanDays > 0) => cells[spanDays].date = UTCToday(now)

Cal_ConsecutiveToLocalToday ==
  calState = "built" => Cal_ConsecutiveTo(LocalToday(tz, now))
Cal_ConsecutiveFixedOffset ==
  (calState = "built" /\ tz.before = tz.after) => Cal_ConsecutiveTo(UTCToday(now))

(***************************************************************************)
(* The BMI form and the self-tests of getBMICategory                        *)
(***************************************************************************)
FtInputs == {EmptyField} \cup {Num(n) : n \in {-1, 0, 5, 6, 58}}
InInputs == {EmptyField} \cup {Num(n) : n \in {-80, 0, 7, 10}}
\* tenths of a pound; 128.9/129.0, 174.2/174.3 and 209.1/209.2 lb straddle
\* 18.5, 25 and 30 at 5 ft 10 in, and 13005.5, 17575 and 21090 lb are
\* exactly 18.5, 25 and 30 at 58 ft 7 in (703 inches)
WeightInputs ==
  {EmptyField} \cup {Num(n) : n \in {-500, 0, 1000, 1289, 1290, 1742, 1743, 1800,
                                    2091, 2092, 2500, 130055, 175750, 210900}}
\* BMI arguments in hundredths
BmiArgs ==
  {Frac(n, 100) : n \in {-100, 0, 1, 1790, 1849, 1850, 1851, 2200, 2490, 2499,
                         2500, 2501, 2750, 2990, 2999, 3000, 3001, 3100}}

BmiInit == BmiIdle /\ EnvIdle /\ DaysIdle /\ CalIdle /\ StoreIdle

NotBmi == <<envVars, daysVars, calVars, storeVars>>
setHeightFt(v) ==
  /\ heightFt' = v
  /\ category' = RenderCategory(v, heightIn, weight)
  /\ bmiPercent' = RenderProgress(v, heightIn, weight).percent
  /\ bmiSub' = RenderProgress(v, heightIn, weight).sub
  /\ UNCHANGED <<heightIn, weight, bmiArg, testCategory, NotBmi>>
setHeightIn(v) ==
  /\ heightIn' = v
  /\ category' = RenderCategory(heightFt, v, weight)
  /\ bmiPercent' = RenderProgress(heightFt, v, weight).percent
  /\ bmiSub' = RenderProgress(heightFt, v, weight).sub
  /\ UNCHANGED <<heightFt, weight, bmiArg, testCategory, NotBmi>>
setWeight(v) ==
  /\ weight' = v
  /\ category' = RenderCategory(heightFt, heightIn, v)
  /\ bmiPercent' = RenderProgress(heightFt, heightIn, v).percent
  /\ bmiSub' = RenderProgress(heightFt, heightIn, v).sub
  /\ UNCHANGED <<heightFt, heightIn, bmiArg, testCategory, NotBmi>>
SelfTestCategory(b) ==
  /\ bmiArg' = b
  /\ testCategory' = getBMICategory(b)
  /\ UNCHANGED <<heightFt, heightIn, weight, category, bmiPercent, bmiSub, NotBmi>>

BmiNext ==
  \/ \E v \in FtInputs : setHeightFt(v)
  \/ \E v \in InInputs : setHeightIn(v)
  \/ \E v \in WeightInputs : setWeight(v)
  \/ \E b \in BmiArgs : SelfTestCategory(b)
SpecBMI == BmiInit /\ [][BmiNext]_vars

\* The category the thresholds give a BMI of n/d (d > 0) that is not 0.
Bucket(n, d) ==
  IF 10 * n < 185 * d THEN "Underweight"
  ELSE IF n < 25 * d THEN "Normal"
  ELSE IF n < 30 * d THEN "Overweight"
  ELSE "Obesity"

\* C9: with totalInches = heightFeet*12 + heightInches, the category is ""
\* when totalInches <= 0 or the BMI is 0; otherwise it is Underweight below
\* 18.5, Normal from 18.5 and below 25, Overweight from 25 and below 30,
\* Obesity from 30 (18.5, 25 and 30 fall in the upper bucket).
C9_Category ==
  /\ LET inches == NumberOr0(heightFt) * 12 + NumberOr0(heightIn)
         w10 == NumberOr0(weight)
     IN category = IF inches <= 0 \/ w10 = 0 THEN ""
                   ELSE Bucket(w10 * 703, 10 * inches * inches)
  /\ testCategory # "none" =>
       testCategory = IF bmiArg.num = 0 THEN ""
                      ELSE Bucket(bmiArg.num, bmiArg.den)

\* a profile whose BMI is exactly 25 (17575 lb at 703 inches), Overweight
C9_Witness ==
  /\ heightFt = Num(58) /\ heightIn = Num(7) /\ weight = Num(175750)
  /\ category = "Overweight"
  /\ bmiArg = Frac(1850, 100) /\ testCategory = "Normal"

\* the BMI the form's fields give
FormBMI == ComputeBMI(heightFt, heightIn, weight)
\* the ring is full
InRange == bmiPercent.num = bmiPercent.den

\* C21: for every BMI greater than 0, the dashboard's BMI progress is 100%
\* ("In range") if and only if getBMICategory gives "Normal" for that BMI;
\* for every other category the progress is strictly below 100%.
C21_InRangeIffNormal ==
  FormBMI.num > 0 =>
    /\ (InRange /\ bmiSub = "In range") <=> category = "Normal"
    /\ category # "Normal" => FracLess(bmiPercent, 1, 1)

\* What does hold: the ring is full exactly from 18.5 to 24.9, both
\* included, and every BMI outside the Normal category is below 100%.
InRange_From185To249 ==
  FormBMI.num > 0 =>
    /\ InRange <=> (~FracLess(FormBMI, 185, 10) /\ ~FracLess(Frac(249, 10), FormBMI.num, FormBMI.den))
    /\ InRange <=> bmiSub = "In range"
    /\ category # "Normal" => FracLess(bmiPercent, 1, 1)
\* a Normal BMI above 24.9 (174.2 lb at 5 ft 10 in is 24.99)
InRange_Witness ==
  /\ heightFt = Num(5) /\ heightIn = Num(10) /\ weight = Num(1742)
  /\ category = "Normal" /\ ~InRange /\ bmiSub = "to 24.9"

====
